---- MODULE Spec2Model ----
(***************************************************************************)
(* Model of tecomat_rtc_update.py: the TecomatRTC frame codec              *)
(* (_calculate_checksum, _build_rtc_packet, _parse_response), the UDP      *)
(* session (connect, close, set_rtc) and its calling sequences (main,      *)
(* periodic_update, and direct use of the class).                          *)
(***************************************************************************)
EXTENDS Integers, Sequences, FiniteSets, TLC

VARIABLES
    mode,       \* which calling sequence owns the TecomatRTC object
    pc,         \* position of that calling sequence
    sock,       \* self.sock: 0 is None, otherwise an index into socks
    socks,      \* the OS sockets created so far
    dt,         \* set_rtc's dt after the timezone offset (the codec's input)
    verify,     \* set_rtc's verify argument
    timeout,    \* set_rtc's timeout argument
    packet,     \* outcome of _build_rtc_packet(dt)
    response,   \* the datagram handed to _parse_response
    result,     \* outcome of _parse_response(response)
    ret,        \* what the last set_rtc call handed back
    cause,      \* why it handed that back (the branch of set_rtc taken)
    printed,    \* the diagnostic set_rtc printed on that branch
    calls,      \* number of set_rtc calls started
    wire,       \* datagrams transmitted to the PLC, in order
    net,        \* calls whose frame the PLC has not answered yet
    nsend,      \* sendto calls made by the current set_rtc call
    nrecv,      \* recvfrom calls made by the current set_rtc call
    replyTo,    \* the call whose frame the datagram in response answered
    tz,         \* the timezone_offset argument
    closeCalls, \* number of close() calls made
    outcomes,   \* the (kind of outcome, returned value) pairs callers have seen
    exitCode    \* main's sys.exit status, -1 while running

vars == <<mode, pc, sock, socks, dt, verify, timeout, packet, response, result,
          ret, cause, printed, calls, wire, net, nsend, nrecv, replyTo, tz,
          closeCalls, outcomes, exitCode>>

----------------------------------------------------------------------------
(* Protocol constants *)

RTC_COMMAND == 99
DATA_LENGTH == 8
ACK_MARKER == 229
MIN_RESPONSE_LEN == 6
CHECKSUM_BIAS == 32
BYTE_MOD == 256
YEAR_BASE == 2000
HEADER == <<2, 1, 2, 0, 0, 17, 104, 11, 11, 104, 0, 125>>
TRAILER == <<22, 0>>

(* Bounds of the model *)

MaxLen == 7
MaxCalls == 2
MaxCloses == 2

----------------------------------------------------------------------------
(* datetime: the standard-library type of set_rtc's dt.  A datetime holds   *)
(* year 1..9999, a month, a day that exists in that month, and a time.      *)

MAXORDINAL == 3652059

IsLeap(y) == y % 4 = 0 /\ (y % 100 # 0 \/ y % 400 = 0)

DaysInMonth(y, m) ==
    IF m = 2 THEN (IF IsLeap(y) THEN 29 ELSE 28)
    ELSE IF m \in {4, 6, 9, 11} THEN 30 ELSE 31

DAYS_BEFORE_MONTH == <<0, 31, 59, 90, 120, 151, 181, 212, 243, 273, 304, 334>>

DaysBeforeMonth(y, m) ==
    DAYS_BEFORE_MONTH[m] + (IF m > 2 /\ IsLeap(y) THEN 1 ELSE 0)

DaysBeforeYear(y) ==
    LET y1 == y - 1
    IN  y1 * 365 + (y1 \div 4) - (y1 \div 100) + (y1 \div 400)

ToOrdinal(d) == DaysBeforeYear(d.year) + DaysBeforeMonth(d.year, d.month) + d.day

\* datetime.weekday(): 0 = Monday .. 6 = Sunday
Weekday(d) == (ToOrdinal(d) + 6) % 7

\* date.fromordinal(n), as datetime._ord2ymd computes it
Ord2Ymd(n) ==
    LET n0   == n - 1
        n400 == n0 \div 146097
        r400 == n0 % 146097
        n100 == r400 \div 36524
        r100 == r400 % 36524
        n4   == r100 \div 1461
        r4   == r100 % 1461
        n1   == r4 \div 365
        r1   == r4 % 365
        year == n400 * 400 + 1 + n100 * 100 + n4 * 4 + n1
        leap == n1 = 3 /\ (n4 # 24 \/ n100 = 3)
        m0   == (r1 + 50) \div 32
        p0   == DAYS_BEFORE_MONTH[m0] + (IF m0 > 2 /\ leap THEN 1 ELSE 0)
        back == p0 > r1
        m    == IF back THEN m0 - 1 ELSE m0
        dim  == IF m = 2 /\ leap THEN 29
                ELSE IF m = 2 THEN 28
                ELSE IF m \in {4, 6, 9, 11} THEN 30 ELSE 31
        p    == IF back THEN p0 - dim ELSE p0
    IN  IF n1 = 4 \/ n100 = 4
        THEN [year |-> year - 1, month |-> 12, day |-> 31]
        ELSE [year |-> year, month |-> m, day |-> r1 - p + 1]

\* dt + timedelta(hours = h) for a whole number of hours: the day the sum
\* falls on, counted from 0001-01-01 = 1
SumOrdinal(d, h) == ToOrdinal(d) + ((d.hour + h) \div 24)

\* datetime.__add__ raises OverflowError outside 0001-01-01 .. 9999-12-31
Overflow(d, h) == ~(0 < SumOrdinal(d, h) /\ SumOrdinal(d, h) <= MAXORDINAL)

AddHours(d, h) ==
    LET ymd == Ord2Ymd(SumOrdinal(d, h))
    IN  [year |-> ymd.year, month |-> ymd.month, day |-> ymd.day,
         hour |-> (d.hour + h) % 24, minute |-> d.minute, second |-> d.second]

DateTime(y, mo, dd, h, mi, s) ==
    [year |-> y, month |-> mo, day |-> dd, hour |-> h, minute |-> mi, second |-> s]

----------------------------------------------------------------------------
(* Frame codec *)

RECURSIVE Sum(_)
Sum(s) == IF s = <<>> THEN 0 ELSE Head(s) + Sum(Tail(s))

CalculateChecksum_NoMask(data_bytes) == Sum(data_bytes) - CHECKSUM_BIAS

\* _calculate_checksum: (total - 0x20) & 0xFF
CalculateChecksum(data_bytes) == (Sum(data_bytes) - CHECKSUM_BIAS) % BYTE_MOD

Raised(field, value) == [exc |-> "ValueError", field |-> field, value |-> value, bytes |-> <<>>]

BuildRtcPacket_NoYearCheck(d) ==
    LET year     == d.year - YEAR_BASE
        dow      == Weekday(d) + 1
        rtc_data == <<DATA_LENGTH, year % BYTE_MOD, d.month, d.day, d.hour, d.minute, d.second, dow>>
    IN  [exc |-> "none", field |-> "none", value |-> 0,
         bytes |-> HEADER \o <<RTC_COMMAND>> \o rtc_data
                   \o <<CalculateChecksum(rtc_data)>> \o TRAILER]

BuildRtcPacket_ClampYear(d) ==
    LET y        == d.year - YEAR_BASE
        year     == IF y < 0 THEN 0 ELSE IF y > 99 THEN 99 ELSE y
        dow      == Weekday(d) + 1
        rtc_data == <<DATA_LENGTH, year, d.month, d.day, d.hour, d.minute, d.second, dow>>
    IN  [exc |-> "none", field |-> "none", value |-> 0,
         bytes |-> HEADER \o <<RTC_COMMAND>> \o rtc_data
                   \o <<CalculateChecksum(rtc_data)>> \o TRAILER]

\* _build_rtc_packet; bytes(payload) itself raises ValueError for a value
\* outside 0..255, which the range checks make unreachable
BuildRtcPacket(d) ==
    LET year     == d.year - YEAR_BASE
        month    == d.month
        day      == d.day
        hour     == d.hour
        minute   == d.minute
        second   == d.second
        dow      == Weekday(d) + 1
        rtc_data == <<DATA_LENGTH, year, month, day, hour, minute, second, dow>>
        checksum == CalculateChecksum(rtc_data)
    IN  IF ~(0 <= year /\ year <= 99) THEN Raised("year", d.year)
        ELSE IF ~(1 <= month /\ month <= 12) THEN Raised("month", month)
        ELSE IF ~(1 <= day /\ day <= 31) THEN Raised("day", day)
        ELSE IF ~(0 <= hour /\ hour <= 23) THEN Raised("hour", hour)
        ELSE IF ~(0 <= minute /\ minute <= 59) THEN Raised("minute", minute)
        ELSE IF ~(0 <= second /\ second <= 59) THEN Raised("second", second)
        ELSE [exc |-> "none", field |-> "none", value |-> 0,
              bytes |-> HEADER \o <<RTC_COMMAND>> \o rtc_data \o <<checksum>> \o TRAILER]

\* bytes.index(0xE5): the first position holding the marker, zero-based
RECURSIVE IndexFrom(_, _, _)
IndexFrom(s, b, i) ==
    IF i > Len(s) THEN -1
    ELSE IF s[i] = b THEN i - 1
    ELSE IndexFrom(s, b, i + 1)

Contains(s, b) == \E i \in 1..Len(s) : s[i] = b

ParseResponse_NoLengthCheck(resp) ==
    IF Contains(resp, ACK_MARKER)
    THEN [success |-> TRUE, error |-> "none", e5_position |-> IndexFrom(resp, ACK_MARKER, 1),
          length |-> Len(resp)]
    ELSE [success |-> FALSE, error |-> "no_ack", e5_position |-> -1, length |-> Len(resp)]

ParseResponse_LastIndex(resp) ==
    IF Len(resp) < MIN_RESPONSE_LEN
    THEN [success |-> FALSE, error |-> "too_short", e5_position |-> -1, length |-> Len(resp)]
    ELSE IF Contains(resp, ACK_MARKER)
    THEN [success |-> TRUE, error |-> "none",
          e5_position |-> (CHOOSE i \in 1..Len(resp) :
                              resp[i] = ACK_MARKER /\ \A j \in (i+1)..Len(resp) : resp[j] # ACK_MARKER) - 1,
          length |-> Len(resp)]
    ELSE [success |-> FALSE, error |-> "no_ack", e5_position |-> -1, length |-> Len(resp)]

\* _parse_response
ParseResponse(resp) ==
    IF Len(resp) < MIN_RESPONSE_LEN
    THEN [success |-> FALSE, error |-> "too_short", e5_position |-> -1, length |-> Len(resp)]
    ELSE IF Contains(resp, ACK_MARKER)
    THEN [success |-> TRUE, error |-> "none", e5_position |-> IndexFrom(resp, ACK_MARKER, 1),
          length |-> Len(resp)]
    ELSE [success |-> FALSE, error |-> "no_ack", e5_position |-> -1, length |-> Len(resp)]

----------------------------------------------------------------------------
(* Values the variables hold before the code has produced them *)

NoDt == DateTime(0, 0, 0, 0, 0, 0)
NoPacket == [exc |-> "unset", field |-> "none", value |-> 0, bytes |-> <<>>]
NoResult == [success |-> FALSE, error |-> "unset", e5_position |-> -1, length |-> 0]

\* The TecomatRTC object after __init__, no call made yet
Constructed ==
    /\ sock = 0
    /\ socks = <<>>
    /\ verify = TRUE
    /\ timeout = 2
    /\ packet = NoPacket
    /\ result = NoResult
    /\ ret = "none"
    /\ cause = "none"
    /\ printed = "none"
    /\ calls = 0
    /\ wire = <<>>
    /\ net = {}
    /\ nsend = 0
    /\ nrecv = 0
    /\ replyTo = 0
    /\ tz = 0
    /\ closeCalls = 0
    /\ outcomes = {}
    /\ exitCode = -1

----------------------------------------------------------------------------
(* The codec on its own: _build_rtc_packet over datetimes *)

EncodeYears == {1, 1999, 2000, 2024, 2025, 2099, 2100, 9999}
EncodeMonths == {1, 2, 10, 12}
EncodeDays == {1, 17, 28, 29, 30, 31}
EncodeHours == {0, 14, 23}
EncodeMinutes == {0, 30, 59}
EncodeSeconds == {0, 59}

EncodeInputs ==
    {d \in [year : EncodeYears, month : EncodeMonths, day : EncodeDays,
            hour : EncodeHours, minute : EncodeMinutes, second : EncodeSeconds] :
        d.day <= DaysInMonth(d.year, d.month)}

InitEncode ==
    /\ mode = "codec"
    /\ pc = "encode"
    /\ dt \in EncodeInputs
    /\ response = <<>>
    /\ Constructed

\* packet = self._build_rtc_packet(dt)
BuildStep ==
    /\ pc = "encode"
    /\ packet' = BuildRtcPacket(dt)
    /\ pc' = "encoded"
    /\ UNCHANGED <<mode, sock, socks, dt, verify, timeout, response, result, ret,
                   cause, printed, calls, wire, net, nsend, nrecv, replyTo, tz,
                   closeCalls, outcomes, exitCode>>

NextEncode == BuildStep

SpecEncode == InitEncode /\ [][NextEncode]_vars

(* The codec on its own: _parse_response over byte strings *)

ResponseBytes == {0, 1, ACK_MARKER}

RECURSIVE SeqsUpTo(_, _)
SeqsUpTo(S, n) ==
    IF n = 0 THEN {<<>>}
    ELSE LET shorter == SeqsUpTo(S, n - 1)
         IN  shorter \cup {Append(q, b) : q \in {x \in shorter : Len(x) = n - 1}, b \in S}

InitDecode ==
    /\ mode = "codec"
    /\ pc = "decode"
    /\ dt = NoDt
    /\ response \in SeqsUpTo(ResponseBytes, MaxLen)
    /\ Constructed

\* result = self._parse_response(response)
ParseStep ==
    /\ pc = "decode"
    /\ result' = ParseResponse(response)
    /\ pc' = "decoded"
    /\ UNCHANGED <<mode, sock, socks, dt, verify, timeout, packet, response, ret,
                   cause, printed, calls, wire, net, nsend, nrecv, replyTo, tz,
                   closeCalls, outcomes, exitCode>>

NextDecode == ParseStep

SpecDecode == InitDecode /\ [][NextDecode]_vars

----------------------------------------------------------------------------
(* The session: connect, close, set_rtc, and the sequences that call them *)

Modes == {"main", "periodic", "api"}

\* What the caller passes or datetime.now() returns
\* (one hour before the last year the frame can carry ends)
CallTimes == {DateTime(2099, 12, 31, 23, 0, 0)}
Offsets == {0, 2, 90000000}
Timeouts == {2, -1}

\* Datagrams the PLC answers with: the ACK of the capture, a reply without the
\* marker, and a truncated reply
Replies == {<<2, 1, 2, 0, 0, 1, 229, 0>>, <<2, 1, 2, 0, 0, 1, 0, 0>>, <<2, 1, 229>>}

Init ==
    /\ mode \in Modes
    /\ pc = "call"
    /\ dt = NoDt
    /\ response = <<>>
    /\ Constructed

\* connect(): self.sock is assigned before bind() is tried, so a failed bind
\* leaves self.sock holding the unbound socket; socket.socket() failing leaves
\* self.sock as it was (None)
Connect(ss, sockOK, bindOK) ==
    IF ~sockOK
    THEN [sock |-> 0, socks |-> ss, raised |-> TRUE]
    ELSE [sock   |-> Len(ss) + 1,
          socks  |-> Append(ss, [port   |-> IF bindOK THEN "local" ELSE "unbound",
                                 closes |-> 0,
                                 rx     |-> <<>>]),
          raised |-> ~bindOK]

Close_NoReset ==
    /\ sock' = sock
    /\ socks' = IF sock # 0
                THEN [socks EXCEPT ![sock].closes = @ + 1, ![sock].rx = <<>>]
                ELSE socks
    /\ closeCalls' = closeCalls + 1

\* close()
Close ==
    /\ sock' = 0
    /\ socks' = IF sock # 0
                THEN [socks EXCEPT ![sock].closes = @ + 1, ![sock].rx = <<>>]
                ELSE socks
    /\ closeCalls' = closeCalls + 1

\* The kinds of outcome the error taxonomy tells apart
Kind(c) ==
    IF c \in {"ack", "unverified"} THEN "success"
    ELSE IF c = "timeout" THEN "timeout"
    ELSE IF c \in {"too_short", "no_ack"} THEN "rejection"
    ELSE IF c \in {"open_failed", "encode_failed", "send_failed",
                   "settimeout_failed", "recv_failed"} THEN "failure"
    ELSE "none"

\* A return statement of set_rtc
Return(r, c, p) ==
    /\ pc' = "returned"
    /\ ret' = r
    /\ cause' = c
    /\ printed' = p
    /\ outcomes' = outcomes \cup {[kind |-> Kind(c), ret |-> r]}

CanCall ==
    /\ mode \in Modes
    /\ pc = "call" \/ (mode = "api" /\ pc = "returned")
    /\ calls < MaxCalls

\* The arguments each calling sequence passes to set_rtc: main passes its
\* command-line values, periodic_update passes only its timezone_offset
ArgsAllowed(h, v, t) ==
    mode = "periodic" => /\ v = TRUE
                         /\ t = 2
                         /\ calls = 0 \/ h = tz

\* set_rtc from its first line to the blocking recvfrom or to its return
SetRtcCall(d, h, v, t, sockOK, bindOK, sendOK) ==
    LET id      == calls + 1
        adj     == IF h = 0 THEN d ELSE AddHours(d, h)
        c       == IF sock = 0 THEN Connect(socks, sockOK, bindOK)
                   ELSE [sock |-> sock, socks |-> socks, raised |-> FALSE]
        pk      == IF c.raised THEN NoPacket ELSE BuildRtcPacket(adj)
        tried   == ~c.raised /\ pk.exc = "none"
        sent    == tried /\ sendOK
        port    == IF c.sock = 0 THEN "none"
                   ELSE IF c.socks[c.sock].port = "unbound" THEN "ephemeral"
                   ELSE c.socks[c.sock].port
        outcome == IF c.raised THEN "open_failed"
                   ELSE IF pk.exc # "none" THEN "encode_failed"
                   ELSE IF ~sendOK THEN "send_failed"
                   ELSE IF ~v THEN "unverified"
                   ELSE IF t < 0 THEN "settimeout_failed"
                   ELSE "waiting"
    IN  /\ calls' = id
        /\ tz' = h
        /\ dt' = adj
        /\ verify' = v
        /\ timeout' = t
        /\ sock' = c.sock
        /\ socks' = IF sent THEN [c.socks EXCEPT ![c.sock].port = port] ELSE c.socks
        /\ packet' = pk
        /\ wire' = IF sent
                   THEN Append(wire, [call |-> id, sock |-> c.sock, port |-> port, bytes |-> pk.bytes])
                   ELSE wire
        /\ net' = IF sent THEN net \cup {id} ELSE net
        /\ nsend' = IF tried THEN 1 ELSE 0
        /\ nrecv' = 0
        /\ response' = <<>>
        /\ result' = NoResult
        /\ replyTo' = 0
        /\ IF outcome = "waiting"
           THEN /\ pc' = "recv"
                /\ ret' = "none"
                /\ cause' = "none"
                /\ printed' = "sent"
                /\ outcomes' = outcomes
           ELSE IF outcome = "unverified"
           THEN Return("True", outcome, "skipped")
           ELSE Return("False", outcome, "error")
        /\ UNCHANGED <<mode, closeCalls, exitCode>>

SetRtc ==
    /\ CanCall
    /\ \E d \in CallTimes, h \in Offsets, v \in BOOLEAN, t \in Timeouts,
          sockOK \in BOOLEAN, bindOK \in BOOLEAN, sendOK \in BOOLEAN :
          /\ ArgsAllowed(h, v, t)
          /\ ~(h # 0 /\ Overflow(d, h))
          /\ SetRtcCall(d, h, v, t, sockOK, bindOK, sendOK)

\* set_rtc when dt + timedelta(hours=timezone_offset) raises OverflowError:
\* line 217 is outside the try block, so the error leaves set_rtc; in
\* periodic_update it passes through the finally clause
SetRtcOverflow ==
    /\ CanCall
    /\ mode \in {"periodic", "api"}
    /\ \E d \in CallTimes, h \in Offsets :
          /\ ArgsAllowed(h, TRUE, 2)
          /\ h # 0 /\ Overflow(d, h)
          /\ tz' = h
    /\ calls' = calls + 1
    /\ ret' = "raised"
    /\ cause' = "overflow"
    /\ nsend' = 0
    /\ nrecv' = 0
    /\ IF mode = "periodic"
       THEN Close /\ pc' = "done"
       ELSE pc' = "returned" /\ UNCHANGED <<sock, socks, closeCalls>>
    /\ UNCHANGED <<mode, dt, verify, timeout, packet, response, result, printed,
                   wire, net, replyTo, outcomes, exitCode>>

\* main, lines 500-501: the same sum is computed for printing before set_rtc
\* is called; its OverflowError is caught at line 537 and the finally clause runs
MainOverflow ==
    /\ mode = "main"
    /\ pc = "call"
    /\ \E d \in CallTimes, h \in Offsets :
          /\ h # 0 /\ Overflow(d, h)
          /\ tz' = h
    /\ Close
    /\ exitCode' = 1
    /\ pc' = "done"
    /\ UNCHANGED <<mode, dt, verify, timeout, packet, response, result, ret, cause,
                   printed, calls, wire, net, nsend, nrecv, replyTo, outcomes>>

RecvResponse_IgnoresResult ==
    /\ pc = "recv"
    /\ socks[sock].rx # <<>>
    /\ LET m == Head(socks[sock].rx)
       IN  /\ response' = m.bytes
           /\ replyTo' = m.call
           /\ result' = ParseResponse(m.bytes)
           /\ socks' = [socks EXCEPT ![sock].rx = Tail(@)]
           /\ Return("True", "ack", "success")
    /\ nrecv' = nrecv + 1
    /\ UNCHANGED <<mode, sock, dt, verify, timeout, packet, calls, wire, net,
                   nsend, tz, closeCalls, exitCode>>

\* recvfrom returns the oldest datagram queued on the socket
RecvResponse ==
    /\ pc = "recv"
    /\ socks[sock].rx # <<>>
    /\ LET m == Head(socks[sock].rx)
           r == ParseResponse(m.bytes)
       IN  /\ response' = m.bytes
           /\ replyTo' = m.call
           /\ result' = r
           /\ socks' = [socks EXCEPT ![sock].rx = Tail(@)]
           /\ IF r.success
              THEN Return("True", "ack", "success")
              ELSE Return("False", r.error, "failed")
    /\ nrecv' = nrecv + 1
    /\ UNCHANGED <<mode, sock, dt, verify, timeout, packet, calls, wire, net,
                   nsend, tz, closeCalls, exitCode>>

RecvTimeout_ReturnsTrue ==
    /\ pc = "recv"
    /\ socks[sock].rx = <<>>
    /\ nrecv' = nrecv + 1
    /\ Return("True", "timeout", "timeout_warning")
    /\ UNCHANGED <<mode, sock, socks, dt, verify, timeout, packet, response, result,
                   calls, wire, net, nsend, replyTo, tz, closeCalls, exitCode>>

\* recvfrom raises socket.timeout: nothing was queued within the timeout
RecvTimeout ==
    /\ pc = "recv"
    /\ socks[sock].rx = <<>>
    /\ nrecv' = nrecv + 1
    /\ Return("False", "timeout", "timeout_warning")
    /\ UNCHANGED <<mode, sock, socks, dt, verify, timeout, packet, response, result,
                   calls, wire, net, nsend, replyTo, tz, closeCalls, exitCode>>

\* recvfrom raises another OSError, caught by the outer except
RecvError ==
    /\ pc = "recv"
    /\ nrecv' = nrecv + 1
    /\ Return("False", "recv_failed", "error")
    /\ UNCHANGED <<mode, sock, socks, dt, verify, timeout, packet, response, result,
                   calls, wire, net, nsend, replyTo, tz, closeCalls, exitCode>>

\* The PLC answers the frame of call id; the answer is queued on the socket the
\* frame left through, unless that socket has been closed meanwhile
PlcReply ==
    \E id \in net, b \in Replies :
        LET w == CHOOSE x \in {wire[k] : k \in 1..Len(wire)} : x.call = id
        IN  /\ net' = net \ {id}
            /\ socks' = IF socks[w.sock].closes = 0
                        THEN [socks EXCEPT ![w.sock].rx = Append(@, [call |-> id, bytes |-> b])]
                        ELSE socks
            /\ UNCHANGED <<mode, pc, sock, dt, verify, timeout, packet, response,
                           result, ret, cause, printed, calls, wire, nsend, nrecv,
                           replyTo, tz, closeCalls, outcomes, exitCode>>

MainExit_NoFinally ==
    /\ mode = "main"
    /\ pc = "returned"
    /\ exitCode' = IF ret = "True" THEN 0 ELSE 1
    /\ pc' = "done"
    /\ UNCHANGED <<mode, sock, socks, closeCalls, dt, verify, timeout, packet, response,
                   result, ret, cause, printed, calls, wire, net, nsend, nrecv,
                   replyTo, tz, outcomes>>

\* main after set_rtc returned: sys.exit(0) or sys.exit(1), then the finally
\* clause, rtc.close()
MainExit ==
    /\ mode = "main"
    /\ pc = "returned"
    /\ exitCode' = IF ret = "True" THEN 0 ELSE 1
    /\ Close
    /\ pc' = "done"
    /\ UNCHANGED <<mode, dt, verify, timeout, packet, response, result, ret, cause,
                   printed, calls, wire, net, nsend, nrecv, replyTo, tz, outcomes>>

\* periodic_update: time.sleep(interval) is over, the loop calls set_rtc again
PeriodicLoop ==
    /\ mode = "periodic"
    /\ pc = "returned"
    /\ pc' = "call"
    /\ UNCHANGED <<mode, sock, socks, dt, verify, timeout, packet, response, result,
                   ret, cause, printed, calls, wire, net, nsend, nrecv, replyTo, tz,
                   closeCalls, outcomes, exitCode>>

\* KeyboardInterrupt in main or periodic_update, before, inside or after
\* set_rtc: the except clause, then the finally clause
Interrupt ==
    /\ mode \in {"main", "periodic"}
    /\ pc \in {"call", "recv", "returned"}
    /\ Close
    /\ pc' = "done"
    /\ exitCode' = IF mode = "main" THEN 130 ELSE exitCode
    /\ ret' = IF pc = "recv" THEN "raised" ELSE ret
    /\ cause' = IF pc = "recv" THEN "interrupted" ELSE cause
    /\ UNCHANGED <<mode, dt, verify, timeout, packet, response, result, printed,
                   calls, wire, net, nsend, nrecv, replyTo, tz, outcomes>>

\* The owner of the object calls close() itself
ApiClose ==
    /\ mode = "api"
    /\ pc \in {"call", "returned"}
    /\ closeCalls < MaxCloses
    /\ Close
    /\ UNCHANGED <<mode, pc, dt, verify, timeout, packet, response, result, ret,
                   cause, printed, calls, wire, net, nsend, nrecv, replyTo, tz,
                   outcomes, exitCode>>

Next ==
    \/ SetRtc
    \/ SetRtcOverflow
    \/ MainOverflow
    \/ RecvResponse
    \/ RecvTimeout
    \/ RecvError
    \/ PlcReply
    \/ MainExit
    \/ PeriodicLoop
    \/ Interrupt
    \/ ApiClose

Spec == Init /\ [][Next]_vars

----------------------------------------------------------------------------
(* Claims about the codec *)

\* Every field of the clock value the frame carries lies in its domain
ValidClock(d) ==
    /\ d.year \in 2000..2099
    /\ d.month \in 1..12
    /\ d.day \in 1..31
    /\ d.hour \in 0..23
    /\ d.minute \in 0..59
    /\ d.second \in 0..59
    /\ Weekday(d) + 1 \in 1..7

C2_OutOfRangeRejected ==
    (pc = "encoded" /\ ~ValidClock(dt)) =>
        /\ packet.exc = "ValueError"
        /\ packet.bytes = <<>>
        /\ packet.field = "year"
        /\ packet.value = dt.year

\* C2 witness: the year 2100 was offered and refused
C2_Witness ==
    /\ pc = "encoded"
    /\ dt.year = 2100
    /\ packet.exc = "ValueError"
    /\ packet.bytes = <<>>

\* The zero-based index of the first 0xE5 in s, stated without the search
IsFirstAck(s, pos) ==
    /\ pos \in 0..(Len(s) - 1)
    /\ s[pos + 1] = ACK_MARKER
    /\ \A j \in 1..pos : s[j] # ACK_MARKER

\* C3 (as claimed): a buffer containing 0xE5 anywhere is Acknowledged, with the
\* position of the first 0xE5
C3_AckAnywhere ==
    (pc = "decoded" /\ Contains(response, ACK_MARKER)) =>
        /\ result.success
        /\ IsFirstAck(response, result.e5_position)

\* C3 (amended): a buffer of at least 6 bytes containing 0xE5 is Acknowledged
\* with the zero-based position of its first 0xE5; a buffer of fewer than 6
\* bytes is rejected even when it contains 0xE5.
C3_AckInLongEnough ==
    /\ (pc = "decoded" /\ Len(response) >= 6 /\ Contains(response, ACK_MARKER)) =>
            /\ result.success
            /\ IsFirstAck(response, result.e5_position)
    /\ (pc = "decoded" /\ Len(response) < 6 /\ Contains(response, ACK_MARKER)) =>
            ~result.success

\* C3 witness: the buffer 00 00 E5 01 E5 01 decoded to position 2, the first
\* of its two markers
C3_Witness ==
    /\ pc = "decoded"
    /\ response = <<0, 0, ACK_MARKER, 1, ACK_MARKER, 1>>
    /\ result.success
    /\ result.e5_position = 2

\* C4: every buffer of fewer than 6 bytes is rejected as too short, every
\* buffer of 6 or more bytes without 0xE5 is rejected as having no ACK marker,
\* and neither reason is given in the other's case.
C4_RejectionReasons ==
    pc = "decoded" =>
        /\ Len(response) < 6 =>
              ~result.success /\ result.error = "too_short" /\ result.length = Len(response)
        /\ (Len(response) >= 6 /\ ~Contains(response, ACK_MARKER)) =>
              ~result.success /\ result.error = "no_ack"
        /\ result.error = "too_short" => Len(response) < 6
        /\ result.error = "no_ack" => Len(response) >= 6 /\ ~Contains(response, ACK_MARKER)

\* C4 witness: a short buffer that holds the marker was still called too short
C4_Witness ==
    /\ pc = "decoded"
    /\ Len(response) < 6
    /\ Contains(response, ACK_MARKER)
    /\ result.error = "too_short"

----------------------------------------------------------------------------
(* Claims about the session *)

\* The current call's frame was encoded and left through sendto
SentOK ==
    /\ packet.exc = "none"
    /\ nsend = 1
    /\ Len(wire) > 0
    /\ wire[Len(wire)].call = calls
    /\ wire[Len(wire)].bytes = packet.bytes

\* C5: set_rtc returns True exactly when the frame was encoded and sent and
\* either verify is false (then no receive was attempted) or verify is true and
\* the reply received decodes to Acknowledged; it returns False on a rejected
\* reply, on a timeout, and when open, encode or send fails.
C5_ReturnValue ==
    ret \in {"True", "False"} =>
        /\ ret = "True" <=> (SentOK /\ (~verify \/ (nrecv = 1 /\ result.success)))
        /\ (ret = "True" /\ ~verify) => (nrecv = 0 /\ response = <<>>)
        /\ (nrecv = 1 /\ result.error \in {"too_short", "no_ack"}) => ret = "False"
        /\ cause = "timeout" => (ret = "False" /\ nrecv = 1 /\ response = <<>>)
        /\ cause \in {"open_failed", "encode_failed", "send_failed"} =>
              (ret = "False" /\ ~SentOK /\ nrecv = 0)

\* C5 witness: a verified call returned True on an acknowledging reply
C5_Witness ==
    /\ pc = "returned"
    /\ ret = "True"
    /\ verify
    /\ nrecv = 1
    /\ result.success
    /\ SentOK

C7_ClosedOnEveryExit ==
    pc = "done" =>
        /\ sock = 0
        /\ closeCalls >= 1
        /\ \A i \in 1..Len(socks) : socks[i].closes = 1

\* C7 witness: the sequence was interrupted inside set_rtc, while waiting for
\* the reply on an open socket, and ended with that socket closed
C7_Witness ==
    /\ pc = "done"
    /\ cause = "interrupted"
    /\ Len(socks) = 1
    /\ socks[1].closes = 1
    /\ sock = 0

\* C8: close() leaves sock None; on a session already closed or never opened
\* it changes nothing; no socket is ever closed twice; the session never holds
\* a closed socket, and a set_rtc on a closed session that gets a socket gets a
\* new one.
C8_CloseIdempotent ==
    [][ /\ closeCalls' = closeCalls + 1 =>
              /\ sock' = 0
              /\ sock = 0 => socks' = socks
              /\ sock # 0 => socks'[sock].closes = 1
        /\ \A i \in 1..Len(socks') : socks'[i].closes <= 1
        /\ sock' # 0 => socks'[sock'].closes = 0
        /\ (calls' = calls + 1 /\ sock = 0 /\ sock' # 0) =>
              /\ sock' = Len(socks) + 1
              /\ Len(socks') = Len(socks) + 1
      ]_vars

\* C8 witness: after set_rtc, close(), close(), a further set_rtc holds a
\* second, open socket while the first was closed once
C8_Witness ==
    /\ closeCalls = 2
    /\ Len(socks) = 2
    /\ socks[1].closes = 1
    /\ sock = 2
    /\ socks[2].closes = 0

\* C9: every frame transmitted leaves through a socket that was bound to the
\* configured local_port
C9_FramesLeaveFromLocalPort ==
    \A k \in 1..Len(wire) : wire[k].port = "local"

\* C10: in the periodic loop, where one socket serves every cycle, a cycle
\* returns True only on a reply to its own frame, never on the late reply to
\* the frame of an earlier cycle
C10_AckAnswersOwnFrame ==
    (mode = "periodic" /\ ret = "True" /\ verify /\ nrecv = 1) => replyTo = calls

\* The datagrams on the wire that call id transmitted
FramesOf(id) == {k \in 1..Len(wire) : wire[k].call = id}

\* C11: a set_rtc call makes at most one sendto and at most one recvfrom and
\* puts at most one datagram on the wire, through a socket it holds; it waits
\* for or receives a reply only after its own frame was sent; and when the
\* clock value to encode (after the timezone offset) is out of range, the call
\* sends no datagram and attempts no receive.
C11_SingleFlightOrdered ==
    /\ nsend \in {0, 1}
    /\ nrecv \in {0, 1}
    /\ nrecv <= nsend
    /\ \A id \in 0..calls : Cardinality(FramesOf(id)) <= 1
    /\ \A k \in 1..Len(wire) : wire[k].sock \in 1..Len(socks) /\ Len(wire[k].bytes) = 24
    /\ (pc = "recv" \/ nrecv = 1) => (SentOK /\ verify)
    /\ ~ValidClock(dt) =>
          /\ FramesOf(calls) = {}
          /\ nsend = 0
          /\ nrecv = 0
          /\ pc # "recv"
    /\ packet.exc = "ValueError" => (~ValidClock(dt) /\ ret # "True")

\* C11 witness: 2099-12-31 23:00:00 with timezone_offset 2 became the year
\* 2100; the call opened its socket, failed to encode, sent and received
\* nothing and returned False
C11_Witness ==
    /\ pc = "returned"
    /\ tz = 2
    /\ dt = DateTime(2100, 1, 1, 1, 0, 0)
    /\ packet.exc = "ValueError"
    /\ cause = "encode_failed"
    /\ ret = "False"
    /\ sock # 0
    /\ FramesOf(calls) = {}
    /\ nsend = 0
    /\ nrecv = 0

====
